---- MODULE Spec2Model ----
(***************************************************************************)
(* Constraint synthesis of the four circuits of the repository:            *)
(*   AgeCircuit1   (src/src/circuits/age1.rs)                              *)
(*   AgeCircuit2   (src/src/circuits/age2.rs)                              *)
(*   PolyCircuit   (src/src/circuits/poly.rs)                              *)
(*   ElGamalEncGadget, driven as in test_elgamal_gadget                    *)
(*                 (src/src/gadgets/public_encryptions/elgamal/            *)
(*                  constraints.rs)                                        *)
(* One synthesis run is one behaviour: Init fixes the circuit value and    *)
(* the synthesis mode, each action is one statement of generate_constraints*)
(* (or of the gadget's driver) acting on the constraint system.            *)
(*                                                                         *)
(* The prime field is scaled down: its modulus is 2*h+1 for the bound h,   *)
(* which keeps it odd, the one property the comparison gadget relies on.   *)
(* The curve group is the additive group of integers modulo SCALAR_MODULUS.*)
(***************************************************************************)
EXTENDS Integers, Sequences, FiniteSets, TLC

VARIABLES
    circuit,                  \* which ConstraintSynthesizer / driver runs
    mode,                     \* SynthesisMode of the constraint system
    self,                     \* the circuit value (its Option fields)
    pc,                       \* position inside generate_constraints
    result,                   \* "running", "Ok", "AssignmentMissing", "panic"
    locals,                   \* the gadget variables bound so far
    instance_assignment,      \* cs.instance_assignment (index 1 is the constant One)
    num_instance_variables,   \* cs.num_instance_variables
    witness_assignment,       \* cs.witness_assignment
    num_witness_variables,    \* cs.num_witness_variables
    constraints               \* the constraints emitted, each with its evaluation

vars == << circuit, mode, self, pc, result, locals, instance_assignment,
           num_instance_variables, witness_assignment, num_witness_variables,
           constraints >>

cs == << instance_assignment, num_instance_variables, witness_assignment,
         num_witness_variables, constraints >>

-----------------------------------------------------------------------------
(* Bounds and the scaled-down field *)

\* (modulus - 1) / 2 of the constraint field
MODULUS_MINUS_ONE_DIV_TWO == 21

MODULUS == 2 * MODULUS_MINUS_ONE_DIV_TWO + 1

F == 0 .. (MODULUS - 1)

\* Option::None, and the value of a variable allocated in setup mode
None == -1

RECURSIVE BitLen(_)
BitLen(n) == IF n = 0 THEN 0 ELSE 1 + BitLen(n \div 2)

MODULUS_BIT_SIZE == BitLen(MODULUS - 1)

FAdd(a, b) == (a + b) % MODULUS
FSub(a, b) == (a - b + MODULUS) % MODULUS
FMul(a, b) == (a * b) % MODULUS

\* F::from_str(s).unwrap_or_default() for a decimal literal n
FromStrOrDefault(n) == IF n < MODULUS THEN n ELSE 0

-----------------------------------------------------------------------------
(* FpVar: a constant or an allocated variable, with its value (None when    *)
(* the constraint system holds no assignment)                               *)

FpConstant(v) == [kind |-> "Constant", value |-> v]
FpVariable(v) == [kind |-> "Var", value |-> v]

\* value of a binary field operation on two FpVars
FpAddValue(a, b) ==
    IF a.value = None \/ b.value = None THEN None ELSE FAdd(a.value, b.value)
FpSubValue(a, b) ==
    IF a.value = None \/ b.value = None THEN None ELSE FSub(a.value, b.value)
FpMulValue(a, b) ==
    IF a.value = None \/ b.value = None THEN None ELSE FMul(a.value, b.value)

FpKind(a, b) ==
    IF a.kind = "Constant" /\ b.kind = "Constant" THEN "Constant" ELSE "Var"

\* a + b, a - b: linear, no variable and no constraint
FpAdd(a, b) == [kind |-> FpKind(a, b), value |-> FpAddValue(a, b)]
FpSub(a, b) == [kind |-> FpKind(a, b), value |-> FpSubValue(a, b)]
\* a * b: a product variable and one constraint only when both are variables
FpMul(a, b) == [kind |-> FpKind(a, b), value |-> FpMulValue(a, b)]
FpMulAllocates(a, b) == a.kind = "Var" /\ b.kind = "Var"

-----------------------------------------------------------------------------
(* The constraint system *)

Constraint(g, ok) == [gadget |-> g, ok |-> ok]

\* cs.is_satisfied(): every constraint holds under the assignment
is_satisfied == \A i \in 1 .. Len(constraints) : constraints[i].ok

\* the public inputs handed to the verifier: the instance without the One
PublicInputs == Tail(instance_assignment)

\* evaluation of a constraint over values; a system without assignment
\* (setup mode) evaluates nothing
Holds(b) == IF mode = "Setup" THEN TRUE ELSE b

-----------------------------------------------------------------------------
(* Allocation (AllocVar for FpVar, over ConstraintSystem)                   *)

\* faulty variant: a missing value is never reported
AllocationNeverFails(opt) == FALSE

\* An Option field read by the closure `|| self.f.ok_or(AssignmentMissing)`.
\* The constraint system runs the closure only outside setup mode, so a
\* missing value aborts the allocation exactly in proving mode.
AllocationFails(opt) == mode = "Prove" /\ opt = None

\* the value the allocated variable carries
AllocatedValue(opt) == IF mode = "Setup" THEN None ELSE opt

\* cs.new_witness_variable / cs.new_input_variable on an assignment vector:
\* the value is pushed only when the system holds an assignment
PushAssignment(assignment, v) ==
    IF mode = "Setup" THEN assignment ELSE Append(assignment, v)

RECURSIVE PushAll(_, _)
PushAll(assignment, vs) ==
    IF vs = << >> THEN assignment
    ELSE PushAll(PushAssignment(assignment, Head(vs)), Tail(vs))

\* `?` on Err(AssignmentMissing): generate_constraints returns at once
Abort ==
    /\ result' = "AssignmentMissing"
    /\ pc' = "done"
    /\ UNCHANGED << circuit, mode, self, locals, cs >>

-----------------------------------------------------------------------------
(* Bits *)

RECURSIVE ToBitsLE(_, _)
\* the n low bits of v, least significant first
ToBitsLE(v, n) ==
    IF n = 0 THEN << >> ELSE << v % 2 >> \o ToBitsLE(v \div 2, n - 1)

\* FpVar::to_bits_le as witnesses: none for a constant, MODULUS_BIT_SIZE
\* Boolean witnesses for a variable
FpBitWitnesses(a) ==
    IF a.kind = "Constant" THEN << >>
    ELSE IF a.value = None THEN [i \in 1 .. MODULUS_BIT_SIZE |-> None]
    ELSE ToBitsLE(a.value, MODULUS_BIT_SIZE)

-----------------------------------------------------------------------------
(* Comparison gadget: FpVar::enforce_cmp / FpVar::is_cmp as called with     *)
(* (other, Ordering::Greater, should_also_check_equality)                   *)

\* (left, right_for_check): Greater swaps the operands, and checking
\* equality too compares against right + 1
process_cmp_inputs(this, other, ordering, should_also_check_equality) ==
    LET left == IF ordering = "Less" THEN this ELSE other
        right == IF ordering = "Less" THEN other ELSE this
    IN  << left,
           IF should_also_check_equality THEN FpAdd(right, FpConstant(1))
           ELSE right >>

\* faulty variant: no restriction to the lower half of the field
in_range_whole_field(a) == a.value = None \/ a.value < MODULUS

\* enforce_smaller_or_equal_than_mod_minus_one_div_two: what the emitted
\* constraints evaluate to
smaller_or_equal_than_mod_minus_one_div_two(a) ==
    a.value = None \/ a.value <= MODULUS_MINUS_ONE_DIV_TWO

\* is_smaller_than_unchecked: the lowest bit of 2 * (a - b)
is_smaller_than_unchecked(a, b) ==
    IF a.value = None \/ b.value = None THEN None
    ELSE Head(ToBitsLE(FMul(2, FSub(a.value, b.value)), MODULUS_BIT_SIZE))

\* the constraints and witnesses both entry points share: the two range
\* checks, then the bit decomposition of the doubled difference
CmpRangeConstraints(left, right) ==
    << Constraint("cmp_range_left",
                  Holds(smaller_or_equal_than_mod_minus_one_div_two(left))),
       Constraint("cmp_range_right",
                  Holds(smaller_or_equal_than_mod_minus_one_div_two(right))) >>

CmpWitnesses(left, right) ==
    FpBitWitnesses(left) \o FpBitWitnesses(right)
        \o FpBitWitnesses(FpMul(FpConstant(2), FpSub(left, right)))

\* Boolean values are the field elements 0 and 1
BoolConstant(b) == [kind |-> "Constant", value |-> b]
BoolVariable(b) == [kind |-> "Var", value |-> b]

-----------------------------------------------------------------------------
(* AgeCircuit1::generate_constraints *)

\* let age_var = FpVar::new_witness(cs, || self.age.ok_or(AssignmentMissing))?
Age1_AllocAge ==
    /\ circuit = "age1" /\ pc = "alloc_age"
    /\ IF AllocationFails(self.age) THEN Abort
       ELSE /\ witness_assignment' =
                   PushAssignment(witness_assignment, AllocatedValue(self.age))
            /\ num_witness_variables' = num_witness_variables + 1
            /\ locals' = [age_var |-> FpVariable(AllocatedValue(self.age))]
            /\ pc' = "const_19"
            /\ UNCHANGED << circuit, mode, self, result, instance_assignment,
                            num_instance_variables, constraints >>

\* let age19 = F::from_str("19").unwrap_or_default();
\* let age19_var = FpVar::new_constant(cs, age19)?
Age1_Const19 ==
    /\ circuit = "age1" /\ pc = "const_19"
    /\ locals' = [age_var |-> locals.age_var,
                  age19_var |-> FpConstant(FromStrOrDefault(19))]
    /\ pc' = "enforce_cmp"
    /\ UNCHANGED << circuit, mode, self, result, cs >>

\* age_var.enforce_cmp(&age19_var, Ordering::Greater, true)
Age1_EnforceCmp ==
    /\ circuit = "age1" /\ pc = "enforce_cmp"
    /\ LET lr == process_cmp_inputs(locals.age_var, locals.age19_var,
                                    "Greater", TRUE)
           bit == is_smaller_than_unchecked(lr[1], lr[2])
           ws == CmpWitnesses(lr[1], lr[2])
       IN  /\ witness_assignment' = PushAll(witness_assignment, ws)
           /\ num_witness_variables' = num_witness_variables + Len(ws)
           /\ constraints' = constraints \o CmpRangeConstraints(lr[1], lr[2])
                  \o << Constraint("cmp_enforce", Holds(bit = 1)) >>
    /\ result' = "Ok"
    /\ pc' = "done"
    /\ UNCHANGED << circuit, mode, self, locals, instance_assignment,
                    num_instance_variables >>

NextAge1 == Age1_AllocAge \/ Age1_Const19 \/ Age1_EnforceCmp

-----------------------------------------------------------------------------
(* Conditional equality: EqGadget::conditional_enforce_equal on FpVar       *)

\* faulty variant: the condition is ignored
enforce_equal_unconditionally(lhs, rhs, cond) ==
    \/ lhs.value = None \/ rhs.value = None
    \/ FSub(lhs.value, rhs.value) = 0

\* faulty variant: nothing is enforced
enforce_nothing(lhs, rhs, cond) == TRUE

\* the one constraint (lhs - rhs) * cond = 0, evaluated
conditional_enforce_equal(lhs, rhs, cond) ==
    \/ lhs.value = None \/ rhs.value = None \/ cond.value = None
    \/ FMul(FSub(lhs.value, rhs.value), cond.value) = 0

-----------------------------------------------------------------------------
(* AgeCircuit2::generate_constraints *)

\* let age_var = FpVar::new_input(cs, || self.age.ok_or(AssignmentMissing))?
Age2_AllocAge ==
    /\ circuit = "age2" /\ pc = "alloc_age"
    /\ IF AllocationFails(self.age) THEN Abort
       ELSE /\ instance_assignment' =
                   PushAssignment(instance_assignment, AllocatedValue(self.age))
            /\ num_instance_variables' = num_instance_variables + 1
            /\ locals' = [age_var |-> FpVariable(AllocatedValue(self.age))]
            /\ pc' = "const_19"
            /\ UNCHANGED << circuit, mode, self, result, witness_assignment,
                            num_witness_variables, constraints >>

\* let age19_var = FpVar::new_constant(cs, F::from_str("19").unwrap_or_default())?
Age2_Const19 ==
    /\ circuit = "age2" /\ pc = "const_19"
    /\ locals' = [age_var |-> locals.age_var,
                  age19_var |-> FpConstant(FromStrOrDefault(19))]
    /\ pc' = "is_cmp"
    /\ UNCHANGED << circuit, mode, self, result, cs >>

\* let is_age_ge_19 = age_var.is_cmp(&age19_var, Ordering::Greater, true)?
Age2_IsCmp ==
    /\ circuit = "age2" /\ pc = "is_cmp"
    /\ LET lr == process_cmp_inputs(locals.age_var, locals.age19_var,
                                    "Greater", TRUE)
           bit == is_smaller_than_unchecked(lr[1], lr[2])
           ws == CmpWitnesses(lr[1], lr[2])
       IN  /\ witness_assignment' = PushAll(witness_assignment, ws)
           /\ num_witness_variables' = num_witness_variables + Len(ws)
           /\ constraints' = constraints \o CmpRangeConstraints(lr[1], lr[2])
           /\ locals' = [age_var |-> locals.age_var,
                         age19_var |-> locals.age19_var,
                         is_age_ge_19 |-> BoolVariable(bit)]
    /\ pc' = "alloc_c"
    /\ UNCHANGED << circuit, mode, self, result, instance_assignment,
                    num_instance_variables >>

\* let c_var = FpVar::new_input(cs, || self.c.ok_or(AssignmentMissing))?
Age2_AllocC ==
    /\ circuit = "age2" /\ pc = "alloc_c"
    /\ IF AllocationFails(self.c) THEN Abort
       ELSE /\ instance_assignment' =
                   PushAssignment(instance_assignment, AllocatedValue(self.c))
            /\ num_instance_variables' = num_instance_variables + 1
            /\ locals' = [c_var |-> FpVariable(AllocatedValue(self.c))] @@ locals
            /\ pc' = "alloc_a"
            /\ UNCHANGED << circuit, mode, self, result, witness_assignment,
                            num_witness_variables, constraints >>

\* let a_var = FpVar::new_witness(cs, || self.a.ok_or(AssignmentMissing))?
Age2_AllocA ==
    /\ circuit = "age2" /\ pc = "alloc_a"
    /\ IF AllocationFails(self.a) THEN Abort
       ELSE /\ witness_assignment' =
                   PushAssignment(witness_assignment, AllocatedValue(self.a))
            /\ num_witness_variables' = num_witness_variables + 1
            /\ locals' = [a_var |-> FpVariable(AllocatedValue(self.a))] @@ locals
            /\ pc' = "alloc_b"
            /\ UNCHANGED << circuit, mode, self, result, instance_assignment,
                            num_instance_variables, constraints >>

\* let b_var = FpVar::new_witness(cs, || self.b.ok_or(AssignmentMissing))?
Age2_AllocB ==
    /\ circuit = "age2" /\ pc = "alloc_b"
    /\ IF AllocationFails(self.b) THEN Abort
       ELSE /\ witness_assignment' =
                   PushAssignment(witness_assignment, AllocatedValue(self.b))
            /\ num_witness_variables' = num_witness_variables + 1
            /\ locals' = [b_var |-> FpVariable(AllocatedValue(self.b))] @@ locals
            /\ pc' = "cond_enforce"
            /\ UNCHANGED << circuit, mode, self, result, instance_assignment,
                            num_instance_variables, constraints >>

\* c_var.conditional_enforce_equal(&(a_var * b_var), &is_age_ge_19)?; Ok(())
Age2_ConditionalEnforceEqual ==
    /\ circuit = "age2" /\ pc = "cond_enforce"
    /\ LET ab == FpMul(locals.a_var, locals.b_var)
       IN  /\ witness_assignment' = PushAssignment(witness_assignment, ab.value)
           /\ num_witness_variables' = num_witness_variables + 1
           /\ constraints' = constraints \o
                 << Constraint("mul", TRUE),
                    Constraint("conditional_enforce_equal",
                        Holds(conditional_enforce_equal(
                                  locals.c_var, ab, locals.is_age_ge_19))) >>
    /\ result' = "Ok"
    /\ pc' = "done"
    /\ UNCHANGED << circuit, mode, self, locals, instance_assignment,
                    num_instance_variables >>

NextAge2 ==
    \/ Age2_AllocAge \/ Age2_Const19 \/ Age2_IsCmp \/ Age2_AllocC
    \/ Age2_AllocA \/ Age2_AllocB \/ Age2_ConditionalEnforceEqual

-----------------------------------------------------------------------------
(* PolyCircuit::generate_constraints *)

\* Option<Vec<F>>
NoneVec == [is_some |-> FALSE, v |-> << >>]
SomeVec(v) == [is_some |-> TRUE, v |-> v]

\* self.coeff.unwrap().iter().map(|c| FpVar::new_constant(cs, *c).unwrap())
Poly_Coeffs ==
    /\ circuit = "poly" /\ pc = "coeffs"
    /\ IF ~ self.coeff.is_some
       THEN /\ result' = "panic"
            /\ pc' = "done"
            /\ UNCHANGED << circuit, mode, self, locals, cs >>
       ELSE /\ locals' = [coeff_vars |->
                             [i \in 1 .. Len(self.coeff.v) |->
                                 FpConstant(self.coeff.v[i])]]
            /\ pc' = "alloc_x"
            /\ UNCHANGED << circuit, mode, self, result, cs >>

\* let x_var = FpVar::new_witness(cs, || self.x.ok_or(AssignmentMissing))?
Poly_AllocX ==
    /\ circuit = "poly" /\ pc = "alloc_x"
    /\ IF AllocationFails(self.x) THEN Abort
       ELSE /\ witness_assignment' =
                   PushAssignment(witness_assignment, AllocatedValue(self.x))
            /\ num_witness_variables' = num_witness_variables + 1
            /\ locals' = [x_var |-> FpVariable(AllocatedValue(self.x))] @@ locals
            /\ pc' = "alloc_y"
            /\ UNCHANGED << circuit, mode, self, result, instance_assignment,
                            num_instance_variables, constraints >>

\* let y_var = FpVar::new_input(cs, || self.y.ok_or(AssignmentMissing))?
Poly_AllocY ==
    /\ circuit = "poly" /\ pc = "alloc_y"
    /\ IF AllocationFails(self.y) THEN Abort
       ELSE /\ instance_assignment' =
                   PushAssignment(instance_assignment, AllocatedValue(self.y))
            /\ num_instance_variables' = num_instance_variables + 1
            /\ locals' = [y_var |-> FpVariable(AllocatedValue(self.y))] @@ locals
            /\ pc' = "init_res"
            /\ UNCHANGED << circuit, mode, self, result, witness_assignment,
                            num_witness_variables, constraints >>

\* let mut res_var = FpVar::new_constant(cs, F::zero())?;
\* let mut x_power_var = FpVar::one()
Poly_InitRes ==
    /\ circuit = "poly" /\ pc = "init_res"
    /\ locals' = [res_var |-> FpConstant(0), x_power_var |-> FpConstant(1),
                  i |-> 1] @@ locals
    /\ pc' = "loop"
    /\ UNCHANGED << circuit, mode, self, result, cs >>

\* faulty variant: the coefficients are taken highest index first
poly_coeff_reversed(coeff_vars, i) == coeff_vars[Len(coeff_vars) + 1 - i]

\* the i-th item of coeff_vars.iter()
poly_coeff(coeff_vars, i) == coeff_vars[i]

\* let term_var = c_var * &x_power_var
poly_term(c_var, x_power_var) == FpMul(c_var, x_power_var)

\* one pass of `for c_var in coeff_vars.iter()`:
\*   term_var = c_var * x_power_var; res_var += term_var; x_power_var *= x_var
Poly_LoopBody ==
    /\ circuit = "poly" /\ pc = "loop"
    /\ locals.i <= Len(locals.coeff_vars)
    /\ LET c_var == poly_coeff(locals.coeff_vars, locals.i)
           term_var == poly_term(c_var, locals.x_power_var)
           next_power == FpMul(locals.x_power_var, locals.x_var)
           allocs == << >>
               \o (IF FpMulAllocates(c_var, locals.x_power_var)
                   THEN << term_var.value >> ELSE << >>)
               \o (IF FpMulAllocates(locals.x_power_var, locals.x_var)
                   THEN << next_power.value >> ELSE << >>)
       IN  /\ locals' = [res_var |-> FpAdd(locals.res_var, term_var),
                         x_power_var |-> next_power,
                         i |-> locals.i + 1] @@ locals
           /\ witness_assignment' = PushAll(witness_assignment, allocs)
           /\ num_witness_variables' = num_witness_variables + Len(allocs)
           /\ constraints' = constraints \o
                 [k \in 1 .. Len(allocs) |-> Constraint("mul", TRUE)]
    /\ UNCHANGED << circuit, mode, self, pc, result, instance_assignment,
                    num_instance_variables >>

\* y_var.enforce_equal(&res_var)?; Ok(())
Poly_EnforceEqual ==
    /\ circuit = "poly" /\ pc = "loop"
    /\ locals.i > Len(locals.coeff_vars)
    /\ constraints' = constraints \o
          << Constraint("enforce_equal",
                 Holds(conditional_enforce_equal(
                           locals.y_var, locals.res_var, BoolConstant(1)))) >>
    /\ result' = "Ok"
    /\ pc' = "done"
    /\ UNCHANGED << circuit, mode, self, locals, instance_assignment,
                    num_instance_variables, witness_assignment,
                    num_witness_variables >>

NextPoly ==
    \/ Poly_Coeffs \/ Poly_AllocX \/ Poly_AllocY \/ Poly_InitRes
    \/ Poly_LoopBody \/ Poly_EnforceEqual

-----------------------------------------------------------------------------
(* The curve group and the scalar field of the encryption gadget            *)

\* modulus of C::ScalarField, which is also the order of the group
SCALAR_MODULUS == 257

\* whole bytes that fit one element of the constraint field:
\* (MODULUS_BIT_SIZE - 1) / 8 of C::BaseField
BYTES_PER_FIELD_ELEMENT == 1

Scalars == 0 .. (SCALAR_MODULUS - 1)
Group == 0 .. (SCALAR_MODULUS - 1)

GAdd(p, q) == (p + q) % SCALAR_MODULUS
GDouble(p) == (p + p) % SCALAR_MODULUS

\* an injective stand-in for the affine coordinates (x, y) of a point
Coords(p) == << 2 * p, 2 * p + 1 >>

\* ElGamal::encrypt outside the constraint system: (r*G, M + r*PK)
NativeEncrypt(generator, pk, msg, r) ==
    << (r * generator) % SCALAR_MODULUS,
       (msg + r * pk) % SCALAR_MODULUS >>

\* a curve variable: constant or allocated, with the point it holds
PointConstant(p) == [kind |-> "Constant", value |-> p]
PointVariable(p) == [kind |-> "Var", value |-> p]

-----------------------------------------------------------------------------
(* RandomnessVar::new_variable *)

\* bytes of the canonical serialization of a scalar field element
SerializedSize == (BitLen(SCALAR_MODULUS) + 7) \div 8

RECURSIVE ToBytesLE(_, _)
ToBytesLE(v, n) ==
    IF n = 0 THEN << >> ELSE << v % 256 >> \o ToBytesLE(v \div 256, n - 1)

\* faulty variant: most significant byte first
serialize_big_endian(r) ==
    [i \in 1 .. SerializedSize |->
        ToBytesLE(r, SerializedSize)[SerializedSize + 1 - i]]

\* serialize_compressed(&mut r) of a scalar: little-endian bytes
serialize_compressed(r) == ToBytesLE(r, SerializedSize)

\* f().map(|b| b.borrow().0).unwrap_or(C::ScalarField::zero())
RandomnessOrZero(opt) == IF opt = None THEN 0 ELSE opt

RECURSIVE FromBytesLE(_)
FromBytesLE(bytes) ==
    IF bytes = << >> THEN 0 ELSE Head(bytes) + 256 * FromBytesLE(Tail(bytes))

RECURSIVE Chunks(_, _)
Chunks(seq, n) ==
    IF seq = << >> THEN << >>
    ELSE IF Len(seq) <= n THEN << seq >>
    ELSE << SubSeq(seq, 1, n) >> \o Chunks(SubSeq(seq, n + 1, Len(seq)), n)

\* UInt8::new_input_vec: the bytes packed into field elements, each an
\* instance variable
PackedFieldElements(bytes) ==
    LET chunks == Chunks(bytes, BYTES_PER_FIELD_ELEMENT)
    IN  [k \in 1 .. Len(chunks) |-> FromBytesLE(chunks[k])]

RECURSIVE FlattenBitsMsbFirst(_)
\* faulty variant: each byte is expanded most significant bit first
FlattenBitsMsbFirst(bytes) ==
    IF bytes = << >> THEN << >>
    ELSE [i \in 1 .. 8 |-> ToBitsLE(Head(bytes), 8)[9 - i]]
             \o FlattenBitsMsbFirst(Tail(bytes))

RECURSIVE FlattenBits(_)
\* .iter().flat_map(|b| b.to_bits_le().unwrap()).collect()
FlattenBits(bytes) ==
    IF bytes = << >> THEN << >>
    ELSE ToBitsLE(Head(bytes), 8) \o FlattenBits(Tail(bytes))

\* smallest bit size of a constraint field holding that many whole bytes
BASE_FIELD_BIT_SIZE == 8 * BYTES_PER_FIELD_ELEMENT + 1

RECURSIVE ElementBits(_)
\* fe.to_bits_le() of each packed element: Boolean witnesses
ElementBits(elements) ==
    IF elements = << >> THEN << >>
    ELSE ToBitsLE(Head(elements), BASE_FIELD_BIT_SIZE)
             \o ElementBits(Tail(elements))

\* let randomness_var = RandomnessVar::new_variable(cs, f, mode).unwrap()
\*   self.randomness is what f() returns (None for Err), self.rmode the mode
EG_AllocRandomness ==
    /\ circuit = "elgamal" /\ pc = "alloc_randomness"
    /\ LET r == serialize_compressed(RandomnessOrZero(self.randomness))
       IN  CASE self.rmode = "Constant" ->
                  \* UInt8::constant_vec(&r)
                  /\ locals' = [randomness_var |-> [kind |-> "Constant",
                                                    bytes |-> r]]
                  /\ UNCHANGED cs
             [] self.rmode = "Input" ->
                  \* UInt8::new_input_vec(cs, &r)
                  /\ locals' = [randomness_var |-> [kind |-> "Var", bytes |-> r]]
                  /\ instance_assignment' =
                         PushAll(instance_assignment, PackedFieldElements(r))
                  /\ num_instance_variables' =
                         num_instance_variables + Len(PackedFieldElements(r))
                  /\ witness_assignment' =
                         PushAll(witness_assignment,
                                 ElementBits(PackedFieldElements(r)))
                  /\ num_witness_variables' = num_witness_variables
                         + Len(ElementBits(PackedFieldElements(r)))
                  /\ UNCHANGED constraints
             [] self.rmode = "Witness" ->
                  \* UInt8::new_witness_vec(cs, &r)
                  /\ locals' = [randomness_var |-> [kind |-> "Var", bytes |-> r]]
                  /\ witness_assignment' =
                         PushAll(witness_assignment, FlattenBits(r))
                  /\ num_witness_variables' =
                         num_witness_variables + Len(FlattenBits(r))
                  /\ UNCHANGED << instance_assignment, num_instance_variables,
                                  constraints >>
    /\ pc' = "alloc_parameters"
    /\ UNCHANGED << circuit, mode, self, result >>

\* let parameters_var = ParametersVar::new_constant(cs, &parameters).unwrap()
EG_AllocParameters ==
    /\ circuit = "elgamal" /\ pc = "alloc_parameters"
    /\ locals' = [parameters_var |->
                     [generator |-> PointConstant(self.generator)]] @@ locals
    /\ pc' = "alloc_msg"
    /\ UNCHANGED << circuit, mode, self, result, cs >>

\* let msg_var = PlaintextVar::new_witness(cs, || Ok(&msg)).unwrap()
EG_AllocMsg ==
    /\ circuit = "elgamal" /\ pc = "alloc_msg"
    /\ locals' = [msg_var |-> [plaintext |-> PointVariable(self.msg)]] @@ locals
    /\ witness_assignment' = PushAll(witness_assignment, Coords(self.msg))
    /\ num_witness_variables' = num_witness_variables + Len(Coords(self.msg))
    /\ pc' = "alloc_pk"
    /\ UNCHANGED << circuit, mode, self, result, instance_assignment,
                    num_instance_variables, constraints >>

\* let pk_var = PublicKeyVar::new_witness(cs, || Ok(&pk)).unwrap()
EG_AllocPk ==
    /\ circuit = "elgamal" /\ pc = "alloc_pk"
    /\ locals' = [pk_var |-> [pk |-> PointVariable(self.pk)]] @@ locals
    /\ witness_assignment' = PushAll(witness_assignment, Coords(self.pk))
    /\ num_witness_variables' = num_witness_variables + Len(Coords(self.pk))
    /\ pc' = "encrypt"
    /\ UNCHANGED << circuit, mode, self, result, instance_assignment,
                    num_instance_variables, constraints >>

-----------------------------------------------------------------------------
(* ElGamalEncGadget::encrypt *)

RECURSIVE ScalarMulBits(_, _)
\* the sum of 2^i * p over the set bits, by doubling and conditional addition
ScalarMulBits(p, bits) ==
    IF bits = << >> THEN 0
    ELSE GAdd(IF Head(bits) = 1 THEN p ELSE 0,
              ScalarMulBits(GDouble(p), Tail(bits)))

\* base.scalar_mul_le(bits.iter())
scalar_mul_le(base, bits, bits_kind) ==
    [kind |-> IF base.kind = "Constant" /\ bits_kind = "Constant"
              THEN "Constant" ELSE "Var",
     value |-> ScalarMulBits(base.value, bits)]

\* p + q on curve variables
PointAdd(p, q) ==
    [kind |-> IF p.kind = "Constant" /\ q.kind = "Constant"
              THEN "Constant" ELSE "Var",
     value |-> GAdd(p.value, q.value)]

\* encrypt(parameters, message, randomness, public_key): the output pair,
\* the intermediate s and the flattened bit vector `randomness` that both
\* scalar multiplications iterate over
encrypt(parameters, message, randomness, public_key) ==
    LET bits == FlattenBits(randomness.bytes)
        s == scalar_mul_le(public_key.pk, bits, randomness.kind)
        c1 == scalar_mul_le(parameters.generator, bits, randomness.kind)
    IN  [c1 |-> c1, s |-> s, c2 |-> PointAdd(message.plaintext, s),
         randomness |-> bits]

\* the coordinates a curve variable adds to the witness
PointWitnesses(p) == IF p.kind = "Var" THEN Coords(p.value) ELSE << >>

\* let result_var = MyGadget::encrypt(&parameters_var, &msg_var,
\*                                    &randomness_var, &pk_var).unwrap()
EG_Encrypt ==
    /\ circuit = "elgamal" /\ pc = "encrypt"
    /\ LET out == encrypt(locals.parameters_var, locals.msg_var,
                          locals.randomness_var, locals.pk_var)
           ws == PointWitnesses(out.s) \o PointWitnesses(out.c1)
                     \o PointWitnesses(out.c2)
       IN  /\ locals' = [result_var |-> [c1 |-> out.c1, c2 |-> out.c2],
                         s |-> out.s,
                         randomness |-> out.randomness] @@ locals
           /\ witness_assignment' = PushAll(witness_assignment, ws)
           /\ num_witness_variables' = num_witness_variables + Len(ws)
    /\ pc' = "alloc_expected"
    /\ UNCHANGED << circuit, mode, self, result, instance_assignment,
                    num_instance_variables, constraints >>

-----------------------------------------------------------------------------
(* OutputVar *)

\* Err(AssignmentMissing) from the value provider of a ciphertext
MissingCiphertext == << >>

\* faulty variant: c2 is allocated before c1
output_var_allocations_c2_first(g) == Coords(g[2]) \o Coords(g[1])

\* the variables OutputVar::new_variable allocates for the ciphertext g, in
\* order: c1 = GG::new_variable(.. g.0 ..)?; c2 = GG::new_variable(.. g.1 ..)?
output_var_allocations(g) == Coords(g[1]) \o Coords(g[2])

\* let expected_var = OutputVar::new_input(cs, || Ok(&primitive_result)).unwrap()
\*   OutputVar::new_variable: c1 = GG::new_variable(.. g.0, mode)?;
\*                            c2 = GG::new_variable(.. g.1, mode)?
EG_AllocExpected ==
    /\ circuit = "elgamal" /\ pc = "alloc_expected"
    /\ IF self.expected = MissingCiphertext THEN Abort
       ELSE /\ locals' = [expected_var |->
                             [c1 |-> PointVariable(self.expected[1]),
                              c2 |-> PointVariable(self.expected[2])]] @@ locals
            /\ instance_assignment' =
                   PushAll(instance_assignment,
                           output_var_allocations(self.expected))
            /\ num_instance_variables' = num_instance_variables
                   + Len(output_var_allocations(self.expected))
            /\ pc' = "enforce_equal"
            /\ UNCHANGED << circuit, mode, self, result, witness_assignment,
                            num_witness_variables, constraints >>

\* GG::is_eq: a Boolean holding 1 exactly when the points are equal
point_is_eq(p, q) == IF p.value = q.value THEN 1 ELSE 0

\* Boolean::and
bool_and(a, b) == IF a = 1 /\ b = 1 THEN 1 ELSE 0

\* faulty variant: one matching component is enough
output_is_eq_any(this, other) ==
    IF point_is_eq(this.c1, other.c1) = 1 \/ point_is_eq(this.c2, other.c2) = 1
    THEN 1 ELSE 0

\* OutputVar::is_eq: self.c1.is_eq(&other.c1)?.and(&self.c2.is_eq(&other.c2)?)
output_is_eq(this, other) ==
    bool_and(point_is_eq(this.c1, other.c1), point_is_eq(this.c2, other.c2))

\* expected_var.enforce_equal(&result_var).unwrap()
\*   EqGadget's default: is_eq(other) is enforced to be true
EG_EnforceEqual ==
    /\ circuit = "elgamal" /\ pc = "enforce_equal"
    /\ LET eq == output_is_eq(locals.expected_var, locals.result_var)
       IN  /\ witness_assignment' = PushAll(witness_assignment,
                 << point_is_eq(locals.expected_var.c1, locals.result_var.c1),
                    point_is_eq(locals.expected_var.c2, locals.result_var.c2),
                    eq >>)
           /\ num_witness_variables' = num_witness_variables + 3
           /\ constraints' = constraints \o
                 << Constraint("enforce_equal", Holds(eq = 1)) >>
           /\ locals' = [is_eq |-> eq] @@ locals
    /\ result' = "Ok"
    /\ pc' = "done"
    /\ UNCHANGED << circuit, mode, self, instance_assignment,
                    num_instance_variables >>

NextElGamal ==
    \/ EG_AllocRandomness \/ EG_AllocParameters \/ EG_AllocMsg \/ EG_AllocPk
    \/ EG_Encrypt \/ EG_AllocExpected \/ EG_EnforceEqual

-----------------------------------------------------------------------------
(* Circuit values and initial states *)

Option(S) == S \cup {None}

\* the longest coefficient vector
MaxCoeffs == 4

\* witness factors of AgeCircuit2
Factors == {2, 4, MODULUS - 1}
\* candidate products of AgeCircuit2
Products == {0, 1, 7, 8, 16}

\* coefficients and evaluation points of PolyCircuit
Coefficients == {0, 1, 5}
Points == {2, 3}

RECURSIVE SeqsUpTo(_, _)
SeqsUpTo(S, n) ==
    IF n = 0 THEN { << >> }
    ELSE LET shorter == SeqsUpTo(S, n - 1)
         IN  shorter \cup { Append(q, e) : q \in shorter, e \in S }

\* (generator, public key, message) of the encryption runs
Triples == { << 1, 2, 0 >>, << 3, 5, 4 >>, << 1, 5, SCALAR_MODULUS - 1 >> }

\* the expected ciphertext handed to OutputVar::new_input: the native one,
\* or one that differs from it in c1, in c2 or in both
ExpectedFor(t, r) ==
    LET n == NativeEncrypt(t[1], t[2], t[3], RandomnessOrZero(r))
    IN  { << GAdd(n[1], d1), GAdd(n[2], d2) >> : d1 \in {0, 1}, d2 \in {0, 1} }
            \cup { MissingCiphertext }

EmptySystem ==
    /\ result = "running"
    /\ locals = << >>
    /\ instance_assignment = << 1 >>
    /\ num_instance_variables = 1
    /\ witness_assignment = << >>
    /\ num_witness_variables = 0
    /\ constraints = << >>

InitAge1 ==
    /\ circuit = "age1"
    /\ mode \in {"Setup", "Prove"}
    /\ self \in [age : Option(F)]
    /\ pc = "alloc_age"
    /\ EmptySystem

InitAge2 ==
    /\ circuit = "age2"
    /\ mode \in {"Setup", "Prove"}
    /\ self \in [age : Option(F), c : Option(Products),
                 a : Option(Factors), b : Option(Factors)]
    /\ pc = "alloc_age"
    /\ EmptySystem

InitPoly ==
    /\ circuit = "poly"
    /\ mode \in {"Setup", "Prove"}
    /\ self \in [coeff : { SomeVec(v) : v \in SeqsUpTo(Coefficients, MaxCoeffs) }
                             \cup { NoneVec },
                 y : Option(F), x : Option(Points)]
    /\ pc = "coeffs"
    /\ EmptySystem

InitElGamal ==
    /\ circuit = "elgamal"
    /\ mode = "Prove"
    /\ \E t \in Triples, r \in Option(Scalars) :
         \E e \in ExpectedFor(t, r), m \in {"Constant", "Input", "Witness"} :
            self = [generator |-> t[1], pk |-> t[2], msg |-> t[3],
                    randomness |-> r, rmode |-> m, expected |-> e]
    /\ pc = "alloc_randomness"
    /\ EmptySystem

Init == InitAge1 \/ InitAge2 \/ InitPoly \/ InitElGamal

Next == NextAge1 \/ NextAge2 \/ NextPoly \/ NextElGamal

Spec == Init /\ [][Next]_vars

SpecAge1 == InitAge1 /\ [][NextAge1]_vars
SpecAge2 == InitAge2 /\ [][NextAge2]_vars
SpecPoly == InitPoly /\ [][NextPoly]_vars
SpecElGamal == InitElGamal /\ [][NextElGamal]_vars

SpecAge == (InitAge1 \/ InitAge2) /\ [][NextAge1 \/ NextAge2]_vars

-----------------------------------------------------------------------------
(* Properties *)

\* a proving-mode run of generate_constraints that returned Ok(())
Synthesized(c) ==
    circuit = c /\ mode = "Prove" /\ pc = "done" /\ result = "Ok"

\* C1: AgeCircuit1 requires strict greater-than: after generate_constraints
\* with age assigned the system is unsatisfied for every age <= 19 (age = 19
\* included) and satisfied for age = 20.
C1_StrictGreaterThan ==
    Synthesized("age1") =>
        /\ self.age <= 19 => ~ is_satisfied
        /\ self.age = 20 => is_satisfied

\* C2 as stated: the comparison with 19 ranges over the canonical integers of
\* the whole field: every age in (19, modulus) satisfies AgeCircuit1 and makes
\* the comparison Boolean of AgeCircuit2 true, with no rejection.
C2_WholeFieldComparison ==
    /\ Synthesized("age1") /\ self.age > 19 => is_satisfied
    /\ Synthesized("age2") /\ self.age > 19 =>
           /\ locals.is_age_ge_19.value = 1
           /\ constraints[1].ok /\ constraints[2].ok

\* C2 amended: the comparison agrees with the canonical integers on the lower
\* half of the field only. Every age with 19 < age < (modulus-1)/2 satisfies
\* AgeCircuit1 and makes the Boolean of AgeCircuit2 true with its range
\* checks passing; every age >= (modulus-1)/2 leaves AgeCircuit1 unsatisfied,
\* and in AgeCircuit2 fails the range check (age <= modulus-2) or, at
\* age = modulus-1 where age+1 wraps to 0, yields a false Boolean.
C2_LowerHalfComparison ==
    /\ Synthesized("age1") /\ self.age > 19 =>
           (is_satisfied <=> self.age < MODULUS_MINUS_ONE_DIV_TWO)
    /\ Synthesized("age2") /\ self.age > 19 =>
           /\ self.age < MODULUS_MINUS_ONE_DIV_TWO =>
                 /\ locals.is_age_ge_19.value = 1
                 /\ constraints[1].ok /\ constraints[2].ok
           /\ self.age >= MODULUS_MINUS_ONE_DIV_TWO /\ self.age <= MODULUS - 2 =>
                 ~ constraints[2].ok /\ ~ is_satisfied
           /\ self.age = MODULUS - 1 => locals.is_age_ge_19.value = 0

C2_Witness ==
    /\ Synthesized("age2")
    /\ self.age = MODULUS_MINUS_ONE_DIV_TWO + 1
    /\ ~ is_satisfied

\* C3 as stated: AgeCircuit2 enforces the product when the condition holds:
\* for every age >= 19 (19 included) and c # a*b the system is unsatisfied
\* (age=20, a=2, b=4, c=7), and with c = a*b it is satisfied (age=20, a=2,
\* b=4, c=8).
C3_ProductEnforcedEveryAge ==
    Synthesized("age2") =>
        /\ (self.age >= 19 /\ self.c # (self.a * self.b) % MODULUS)
               => ~ is_satisfied
        /\ (self.age = 20 /\ self.a = 2 /\ self.b = 4 /\ self.c = 8)
               => is_satisfied

\* C3 amended: for every age with 19 <= age <= modulus-2 (19 included) and
\* c # a*b the system is unsatisfied (age=20, a=2, b=4, c=7); with c = a*b
\* it is satisfied for every age with 19 <= age < (modulus-1)/2 (age=20, a=2,
\* b=4, c=8); at age = modulus-1, where age+1 wraps to 0, the condition is
\* false and the system is satisfied whatever c is.
C3_ProductEnforcedInRange ==
    Synthesized("age2") =>
        /\ (self.age >= 19 /\ self.age <= MODULUS - 2
                /\ self.c # (self.a * self.b) % MODULUS)
               => ~ is_satisfied
        /\ (self.age >= 19 /\ self.age < MODULUS_MINUS_ONE_DIV_TWO
                /\ self.c = (self.a * self.b) % MODULUS)
               => is_satisfied
        /\ self.age = MODULUS - 1 => is_satisfied

C3_Witness ==
    /\ Synthesized("age2")
    /\ self.age = 20 /\ self.a = 2 /\ self.b = 4 /\ self.c = 7
    /\ ~ is_satisfied

\* C4: the false branch of AgeCircuit2 leaves c unconstrained: for every
\* age < 19 and every a, b, c (c # a*b and c # 0 included) the system is
\* satisfied.
C4_FalseBranchUnconstrained ==
    Synthesized("age2") /\ self.age < 19 => is_satisfied

C4_Witness ==
    /\ Synthesized("age2")
    /\ self.age = 18
    /\ self.c # (self.a * self.b) % MODULUS /\ self.c # 0
    /\ is_satisfied

RECURSIVE Power(_, _)
\* x^k in the field
Power(x, k) == IF k = 0 THEN 1 ELSE (x * Power(x, k - 1)) % MODULUS

RECURSIVE TermSum(_, _, _)
\* the sum of coeff[i] * x^(i-1) over the first n coefficients
TermSum(coeff, x, n) ==
    IF n = 0 THEN 0
    ELSE (TermSum(coeff, x, n - 1) + coeff[n] * Power(x, n - 1)) % MODULUS

\* C5: PolyCircuit is satisfied exactly when y is the term-by-term sum of
\* coeff[i] * x^i, index i being the degree; the empty vector forces y = 0,
\* and coeff = [5,1,0,1], x = 3 forces y = 35.
C5_PolySatisfiedIffSum ==
    Synthesized("poly") =>
        /\ is_satisfied <=>
               self.y = TermSum(self.coeff.v, self.x, Len(self.coeff.v))
        /\ self.coeff.v = << >> => (is_satisfied <=> self.y = 0)
        /\ self.coeff.v = << 5, 1, 0, 1 >> /\ self.x = 3 =>
               (is_satisfied <=> self.y = 35 % MODULUS)

C5_Witness ==
    /\ Synthesized("poly")
    /\ self.coeff.v = << 5, 1, 0, 1 >> /\ self.x = 3 /\ self.y = 35
    /\ is_satisfied

\* C6: the gadget's ciphertext equals the native one: for every generator,
\* public key, message and randomness, encrypt on the allocated variables
\* yields (c1, c2) = (r*G, M + r*PK), and enforcing equality with the native
\* ciphertext allocated as Input leaves the system satisfied.
C6_EncryptRoundTrip ==
    circuit = "elgamal" /\ self.randomness # None =>
        LET native == NativeEncrypt(self.generator, self.pk, self.msg,
                                    self.randomness)
        IN  /\ "result_var" \in DOMAIN locals =>
                  /\ locals.result_var.c1.value = native[1]
                  /\ locals.result_var.c2.value = native[2]
            /\ Synthesized("elgamal") /\ self.expected = native => is_satisfied

C6_Witness ==
    /\ Synthesized("elgamal")
    /\ self.randomness = 256 /\ self.rmode = "Witness"
    /\ self.generator = 3
    /\ self.expected = NativeEncrypt(self.generator, self.pk, self.msg,
                                     self.randomness)
    /\ is_satisfied

CmpWitnessCount == 2 * MODULUS_BIT_SIZE

C9_MissingRandomnessFails ==
    circuit = "elgamal" /\ pc = "alloc_parameters" =>
        /\ self.rmode \in {"Witness", "Input"} /\ self.randomness = None =>
              /\ result = "AssignmentMissing"
              /\ num_witness_variables = 0 /\ num_instance_variables = 1
        /\ self.rmode = "Constant" =>
              num_witness_variables = 0 /\ num_instance_variables = 1

\* C10: OutputVar equality is component-wise: is_eq is true iff c1 = c1' and
\* c2 = c2'; a pair matching in one component only is not equal, and
\* enforce_equal on it leaves the system unsatisfied.
C10_ComponentWiseEquality ==
    Synthesized("elgamal") =>
        LET e == locals.expected_var
            r == locals.result_var
        IN  /\ locals.is_eq = 1 <=>
                   (e.c1.value = r.c1.value /\ e.c2.value = r.c2.value)
            /\ is_satisfied <=> locals.is_eq = 1

C10_Witness ==
    /\ Synthesized("elgamal")
    /\ locals.expected_var.c1.value = locals.result_var.c1.value
    /\ locals.expected_var.c2.value # locals.result_var.c2.value
    /\ ~ is_satisfied

RECURSIVE Pow2(_)
Pow2(k) == IF k = 0 THEN 1 ELSE 2 * Pow2(k - 1)

\* bit i (from 0) of the canonical integer of a scalar
BitOf(r, i) == (r \div Pow2(i)) % 2

\* bits in the canonical expansion of a scalar: the bit size of the modulus
SCALAR_BIT_SIZE == BitLen(SCALAR_MODULUS)

\* the gadget has run encrypt on a randomness that was supplied
Encrypted ==
    /\ circuit = "elgamal" /\ self.randomness # None
    /\ "randomness" \in DOMAIN locals

\* C11 as stated: the bit sequence encrypt feeds to both scalar
\* multiplications is the exact canonical little-endian bit expansion of the
\* randomness scalar: bit i of the sequence is bit i of the scalar, and the
\* sequence is neither longer nor shorter than that expansion.
C11_ExactCanonicalBits ==
    Encrypted =>
        /\ Len(locals.randomness) = SCALAR_BIT_SIZE
        /\ \A i \in 1 .. Len(locals.randomness) :
              locals.randomness[i] = BitOf(self.randomness, i - 1)

\* C11 amended: the bit sequence is the canonical little-endian bit
\* expansion of the randomness scalar padded with zero bits to whole bytes:
\* it has 8 bits per serialized byte, which is at least the canonical length;
\* bytes are taken in serialized order, each least-significant bit first, so
\* bit i of the sequence is bit i of the scalar and every bit past the
\* canonical expansion is 0; the same sequence drives r*G and r*PK.
C11_PaddedCanonicalBits ==
    Encrypted =>
        /\ Len(locals.randomness) = 8 * SerializedSize
        /\ Len(locals.randomness) >= SCALAR_BIT_SIZE
        /\ \A i \in 1 .. Len(locals.randomness) :
              /\ locals.randomness[i] = BitOf(self.randomness, i - 1)
              /\ i > SCALAR_BIT_SIZE => locals.randomness[i] = 0
        /\ locals.result_var.c1.value =
              ScalarMulBits(self.generator, locals.randomness)
        /\ locals.s.value = ScalarMulBits(self.pk, locals.randomness)

C11_Witness ==
    /\ Encrypted
    /\ self.randomness = 256
    /\ Len(locals.randomness) > SCALAR_BIT_SIZE
    /\ locals.randomness[9] = 1

====
